---- MODULE Spec2Model ----
(***************************************************************************)
(* Model of internal/service/ora2pg.go: one call of Ora2pgService.Execute  *)
(* with its child process, the two readOutput goroutines, the goroutine    *)
(* that calls cmd.Wait when a timeout is set, the timer, and the context   *)
(* (with the kill that exec.CommandContext performs when it is cancelled). *)
(***************************************************************************)
EXTENDS Integers, Sequences, FiniteSets, TLC

\* ---------------------------------------------------------------- bounds
\* Largest number of lines the child writes to one stream in the ordinary
\* plans, and the number of lines an OS pipe holds before a write blocks.
MaxLines == 2
PipeCap == 2
\* Largest number of clock units between two readings of time.Now().
MaxElapsed == 1

\* ------------------------------------------------------ program constants
\* make(chan string, 100), make(chan bool, 2)
OutputChanCap == 100
DoneChanCap == 2

Streams == {"stdout", "stderr"}

StatusPending == "PENDING"
StatusRunning == "RUNNING"
StatusCompleted == "COMPLETED"
StatusFailed == "FAILED"
StatusCancelled == "CANCELLED"

\* ----------------------------------------------------------------- errors
\* An error value is a record; ExitError carries the code ExitCode() gives
\* (-1 when the process was terminated by a signal).
NoError == [kind |-> "nil", code |-> 0]
ErrToolNotFound == [kind |-> "ORA2PG_NOT_FOUND", code |-> 0]
ErrConfigNotFound == [kind |-> "FILE_NOT_FOUND", code |-> 0]
ErrCreateFailed == [kind |-> "CREATE_FAILED", code |-> 0]
ErrStart == [kind |-> "start failed", code |-> 0]
ErrCtx == [kind |-> "context canceled", code |-> 0]
ErrTimeout == [kind |-> "timeout", code |-> 0]
ExitError(c) == [kind |-> "ExitError", code |-> c]

\* Instants are integers; the zero time.Time is before every reading of
\* the clock, and StartTime is the first reading.
ZeroTime == 0
FirstInstant == ZeroTime + 1

\* Exit codes a child that ends on its own may report.
ExitCodes == {0, 3}
Endings == {"exit", "hang"}

\* The k-th line the child writes to stream s, as bytes in the pipe
\* (newline-terminated), and what scanner.Text() gives for it.
RawLine(s, k) == <<s, k, "\n">>
ScanText(raw) == SubSeq(raw, 1, 2)
Stored(line) == line \o <<"\n">>

\* The plans of the child: how many lines it writes to each stream, and how
\* it ends.  The flood plans put more lines on one stream than its line
\* queue holds and nothing on the other.
SmallPlans ==
  [out : 0..MaxLines, err : 0..MaxLines, ending : Endings, code : ExitCodes]
FloodPlans ==
  { [out |-> OutputChanCap + 1, err |-> 0, ending |-> e, code |-> 0] : e \in Endings }
  \cup
  { [out |-> 0, err |-> OutputChanCap + 1, ending |-> e, code |-> 0] : e \in Endings }
Plans == { p \in SmallPlans : p.ending = "hang" => p.code = 0 } \cup FloodPlans

PlanLines(p, s) == IF s = "stdout" THEN p.out ELSE p.err

VARIABLES
  optTimeout,   \* options.Timeout (0: none)
  plan,         \* what the child will do
  ctxDone,      \* ctx.Done() is closed
  ctxWhileRunning, \* the context was cancelled while the child was running
  pc,           \* position of Execute / executeCommand
  result,       \* the ExecutionResult
  retErr,       \* the error Execute returns
  proc,         \* child: "none", "running", "exited", "killed"
  written,      \* lines the child has written, per stream
  pipe,         \* unread content of each pipe
  pipeClosed,   \* cmd.Wait has closed the parent's read ends
  ctxKillSent,  \* CommandContext's watcher has called Kill
  waiter,       \* goroutine of line 306: "none", "waiting", "done"
  errChan,      \* its channel (capacity 1)
  timerFired,   \* timer.C is ready
  winner,       \* the select case taken: "none", "cancel", "timeout", "exit"
  supKill,      \* executeCommand has called cmd.Process.Kill()
  waitErr,      \* executeCommand's waitErr
  outputChan,   \* outputChan / errorChan, per stream
  doneChan,     \* number of values buffered in doneChan
  doneSent,     \* completion signals sent, per reader
  doneRecv,     \* completion signals executeCommand has received
  rpc,          \* position of each readOutput: "idle", "scan", "send", "defer", "done"
  rline,        \* the line a reader holds
  fault,        \* the step of Execute that failed: "none", "validate", "build", "prepare", "start"
  waitRet       \* what cmd.Wait returned (NoError before it returns)

execVars == << optTimeout, plan, ctxDone, ctxWhileRunning, pc, result, retErr,
           proc, written, pipe, pipeClosed, ctxKillSent, waiter, errChan,
           timerFired, winner, supKill, waitErr, outputChan, doneChan,
           doneSent, doneRecv, rpc, rline, fault, waitRet >>

envVars == << optTimeout, plan >>

\* ------------------------------------------------- ProgressTracker state
VARIABLES
  pt,           \* the ProgressTracker's fields
  mutexW,       \* the caller that holds pt.mutex for writing (0: none)
  stopChan,     \* number of values buffered in pt.stopChan
  updateChan,   \* content of pt.updateChan
  updateClosed, \* pt.updateChan has been closed
  loops,        \* the displayProgress goroutines, in the order started
  callers,      \* the goroutines that call the tracker's methods
  ncalls,       \* number of method calls begun
  trkNow,       \* the last reading of time.Now() by the tracker
  panicked,     \* "none", or the run-time panic that ended the program
  lastRender,   \* what a display loop printed last
  everStopped,  \* Stop has returned on a tracker that was running
  renderedAfterStop \* a display loop has printed after that, with the tracker still stopped

trkVars == << pt, mutexW, stopChan, updateChan, updateClosed, loops, callers,
              ncalls, trkNow, panicked, lastRender, everStopped,
              renderedAfterStop >>

\* ExecuteWithProgress (internal/service/migration.go)
VARIABLES
  migrationTypes,   \* the step list
  ctxCancelled,     \* ctx of ExecuteWithProgress is done
  envOk,            \* prepareEnvironment will succeed
  cfgOk,            \* generateOra2pgConfig will succeed
  msState,          \* ms.state
  mpc,              \* where ExecuteWithProgress is
  idx,              \* i of the loop, counted from 1
  results,          \* the local results slice
  ret,              \* what ExecuteWithProgress returned
  execLog           \* calls and returns of Execute, in order

orchVars == << migrationTypes, ctxCancelled, envOk, cfgOk, msState, mpc, idx,
               results, ret, execLog >>

\* parseProgress (internal/service/ora2pg.go), called line by line
VARIABLES
  progress,         \* the ProgressInfo
  prior,            \* the ProgressInfo before the last call
  lastLine,         \* the line of the last call
  nparsed           \* calls made

parseVars == << progress, prior, lastLine, nparsed >>

\* What the steps of Execute, of the tracker and of ExecuteWithProgress
\* leave alone.
\* buildCommandArgs (internal/service/ora2pg.go)
VARIABLES
  bType,            \* migrationType
  bOptions,         \* options
  bExists,          \* fileUtils.FileExists(options.ConfigFile)
  bOut              \* what buildCommandArgs returned

argsVars == << bType, bOptions, bExists, bOut >>

\* The two readOutput goroutines of one Execute, as callers of
\* parseProgress on result.Progress (the variable progress)
VARIABLES
  rdInput,          \* the lines each stream delivers
  rdNext,           \* per stream, the index of the line being parsed
  rdAt              \* per stream, where its handler is

rdVars == << rdInput, rdNext, rdAt >>

nonExecVars == << trkVars, orchVars, parseVars, argsVars, rdVars >>
nonTrkVars == << execVars, orchVars, parseVars, argsVars, rdVars >>
nonOrchVars == << execVars, parseVars, argsVars, rdVars >>
nonParseVars == << execVars, trkVars, orchVars, argsVars, rdVars >>

vars == << execVars, trkVars, orchVars, parseVars, argsVars, rdVars >>

\* make(chan bool, 1), make(chan ProgressUpdate, 100)
StopChanCap == 1
UpdateChanCap == 100

\* Bounds of the tracker's specification: the goroutines that call it, the
\* calls they make in all, the calls of Start among them, and the largest
\* step number passed to UpdateStep.
NumCallers == 2
MaxCalls == 4
MaxStarts == 2
MaxStep == 2

Callers == 1..NumCallers
\* The arguments of Start (totalSteps), UpdateStep (step) and
\* UpdateProgress (percentage).  With these totals step/total*100 is exact.
Totals == {0, 1}
StepArgs == 1..MaxStep
PctArgs == {0, 50}

\* The zero ProgressTracker that NewProgressTracker returns.
NewProgressTracker ==
  [taskName |-> "", totalSteps |-> 0, currentStep |-> 0, currentMessage |-> "",
   percentage |-> 0, startTime |-> ZeroTime, lastUpdateTime |-> ZeroTime,
   isRunning |-> FALSE]

ZeroUpdate == [Step |-> 0, Message |-> "", Percentage |-> 0, Details |-> ""]
IdleCaller == [pc |-> "idle", op |-> "none", a |-> 0]
NoRender == [kind |-> "none", step |-> 0, total |-> 0, message |-> "", percentage |-> 0]

\* float64(step) / float64(total) * 100
Percent(step, total) == (step * 100) \div total

\* The tracker as constructed, with no goroutine of its own and no caller.
TrackerFresh ==
  /\ pt = NewProgressTracker
  /\ mutexW = 0
  /\ stopChan = 0
  /\ updateChan = <<>>
  /\ updateClosed = FALSE
  /\ loops = <<>>
  /\ callers = [c \in Callers |-> IdleCaller]
  /\ ncalls = 0
  /\ trkNow = ZeroTime
  /\ panicked = "none"
  /\ lastRender = NoRender
  /\ everStopped = FALSE
  /\ renderedAfterStop = FALSE
childVars == << proc, written, pipe >>
readerVars == << outputChan, doneChan, doneSent, rpc, rline >>
supVars == << pc, result, retErr, winner, supKill, waitErr, doneRecv, fault >>

\* result := &ExecutionResult{Status: StatusPending, ...}; the other fields
\* have their zero values.
NewResult ==
  [Status |-> StatusPending, ExitCode |-> 0, Output |-> <<>>,
   ErrorOutput |-> <<>>, Error |-> NoError,
   StartTime |-> FirstInstant, EndTime |-> ZeroTime, Duration |-> 0]

\* time.Now() read after instant t.
LaterInstants(t) == t..(t + MaxElapsed)

\* Execute has been entered and has taken no step.
ExecFresh ==
  /\ ctxWhileRunning = FALSE
  /\ pc = "validate"
  /\ result = NewResult
  /\ retErr = NoError
  /\ proc = "none"
  /\ written = [s \in Streams |-> 0]
  /\ pipe = [s \in Streams |-> <<>>]
  /\ pipeClosed = FALSE
  /\ ctxKillSent = FALSE
  /\ waiter = "none"
  /\ errChan = <<>>
  /\ timerFired = FALSE
  /\ winner = "none"
  /\ supKill = FALSE
  /\ waitErr = NoError
  /\ outputChan = [s \in Streams |-> <<>>]
  /\ doneChan = 0
  /\ doneSent = [s \in Streams |-> 0]
  /\ doneRecv = 0
  /\ rpc = [s \in Streams |-> "idle"]
  /\ rline = [s \in Streams |-> <<>>]
  /\ fault = "none"
  /\ waitRet = NoError

\* &ProgressInfo{}; a percentage is a fraction n/d in lowest terms.
NewProgressInfo ==
  [CurrentStep |-> << >>, TotalSteps |-> 0, CompletedSteps |-> 0,
   Percentage |-> [n |-> 0, d |-> 1], ProcessedRows |-> 0, TotalRows |-> 0,
   Message |-> << >>]

\* A pattern that finds nothing in the line.
NoMatch == [kind |-> "none"]

\* A line as the four patterns see it: whether it starts with "INFO: ",
\* and the text each of the first three patterns finds in it.
LineOf(x, a, b, c) == [prefix |-> x, proc |-> a, exported |-> b, totalRows |-> c]

NoLine == LineOf("", NoMatch, NoMatch, NoMatch)

\* No line has been parsed.
ParseFresh ==
  /\ progress = NewProgressInfo
  /\ prior = NewProgressInfo
  /\ lastLine = NoLine
  /\ nparsed = 0

\* buildCommandArgs is not in progress.
NoOptions ==
  [ConfigFile |-> "", OutputDir |-> "", Verbose |-> FALSE, DryRun |-> FALSE,
   LogFile |-> ""]
NotBuilt == [done |-> FALSE, args |-> << >>, err |-> NoError]
ArgsUnused ==
  /\ bType = "TABLE"
  /\ bOptions = NoOptions
  /\ bExists = FALSE
  /\ bOut = NotBuilt

\* No reader is parsing.
ReadersUnused ==
  /\ rdInput = [s \in Streams |-> << >>]
  /\ rdNext = [s \in Streams |-> 1]
  /\ rdAt = [s \in Streams |-> "scan"]

\* NewMigrationService: state
NewMigrationState ==
  [TotalSteps |-> 0, CompletedSteps |-> 0, Results |-> <<>>,
   IsCompleted |-> FALSE, IsCancelled |-> FALSE, CurrentType |-> ""]

\* ExecuteWithProgress has not returned; a nil slice has length 0.
NoReturn == [results |-> <<>>, nilResults |-> TRUE, err |-> NoError]

\* ExecuteWithProgress has been entered and has taken no step.
OrchEntry ==
  /\ msState = NewMigrationState
  /\ mpc = "entry"
  /\ idx = 0
  /\ results = <<>>
  /\ ret = NoReturn
  /\ execLog = <<>>

\* No migration is in progress.
OrchUnused ==
  /\ migrationTypes = <<>>
  /\ ctxCancelled = FALSE
  /\ envOk = TRUE
  /\ cfgOk = TRUE
  /\ OrchEntry

Init ==
  /\ optTimeout \in {0, 1}
  /\ plan \in Plans
  /\ ctxDone \in BOOLEAN
  /\ ExecFresh
  /\ TrackerFresh
  /\ OrchUnused
  /\ ParseFresh
  /\ ArgsUnused
  /\ ReadersUnused


\* ------------------------------------------------------------ environment
\* The caller cancels the context.
CancelCtx ==
  /\ ~ctxDone
  /\ pc # "returned"
  /\ ctxDone' = TRUE
  /\ ctxWhileRunning' = (proc = "running")
  /\ UNCHANGED << nonExecVars, envVars, childVars, readerVars, supVars, pipeClosed,
                  ctxKillSent, waiter, errChan, timerFired, waitRet >>

\* exec.CommandContext: once ctx is done, a goroutine started by cmd.Start
\* calls Process.Kill, unless Wait has already reaped the process.  The kill
\* ends a running child; sent to a child that has exited and is not yet
\* reaped it succeeds too, and Wait then reports ctx.Err() for a clean exit.
WatchCtx ==
  /\ ctxDone
  /\ proc # "none"
  /\ ~pipeClosed
  /\ ~ctxKillSent
  /\ ctxKillSent' = TRUE
  /\ proc' = IF proc = "running" THEN "killed" ELSE proc
  /\ UNCHANGED << nonExecVars, envVars, ctxDone, ctxWhileRunning, written, pipe, readerVars,
                  supVars, pipeClosed, waiter, errChan, timerFired, waitRet >>

\* time.NewTimer(options.Timeout): the timer fires while executeCommand is
\* in (or past) the select; it is only read by the select.
TimerFire ==
  /\ optTimeout > 0
  /\ pc = "select"
  /\ ~timerFired
  /\ timerFired' = TRUE
  /\ UNCHANGED << nonExecVars, envVars, ctxDone, ctxWhileRunning, childVars, readerVars,
                  supVars, pipeClosed, ctxKillSent, waiter, errChan, waitRet >>

\* ------------------------------------------------------------------ child
\* The child writes its next line to a stream; the write blocks while the
\* pipe is full.
ChildWrite(s) ==
  /\ proc = "running"
  /\ written[s] < PlanLines(plan, s)
  /\ Len(pipe[s]) < PipeCap
  /\ written' = [written EXCEPT ![s] = @ + 1]
  /\ pipe' = [pipe EXCEPT ![s] = Append(@, RawLine(s, written[s] + 1))]
  /\ UNCHANGED << nonExecVars, envVars, ctxDone, ctxWhileRunning, proc, readerVars, supVars,
                  pipeClosed, ctxKillSent, waiter, errChan, timerFired, waitRet >>

\* The child has written everything and exits on its own.
ChildExit ==
  /\ proc = "running"
  /\ plan.ending = "exit"
  /\ \A s \in Streams : written[s] = PlanLines(plan, s)
  /\ proc' = "exited"
  /\ UNCHANGED << nonExecVars, envVars, ctxDone, ctxWhileRunning, written, pipe, readerVars,
                  supVars, pipeClosed, ctxKillSent, waiter, errChan, timerFired,
                  waitRet >>

\* What cmd.Wait returns once the child is dead: an *ExitError when the
\* state is not a success (ExitCode() = -1 for a signal), else the error of
\* the context watcher, else nil.
WaitResult ==
  IF proc = "killed" THEN ExitError(-1)
  ELSE IF plan.code # 0 THEN ExitError(plan.code)
  ELSE IF ctxKillSent THEN ErrCtx
  ELSE NoError


\* ---------------------------------------------------------------- readers
Chan(s) == outputChan[s]

\* scanner.Scan(): the next line of the pipe; false at end of stream (the
\* child is dead and the pipe is empty) or on a read error (cmd.Wait has
\* closed the read end: what is left in the pipe is lost).
ReaderScan(s) ==
  /\ rpc[s] = "scan"
  /\ IF pipeClosed
       THEN /\ rpc' = [rpc EXCEPT ![s] = "defer"]
            /\ UNCHANGED << pipe, rline >>
       ELSE IF pipe[s] # <<>>
         THEN /\ rline' = [rline EXCEPT ![s] = ScanText(Head(pipe[s]))]
              /\ pipe' = [pipe EXCEPT ![s] = Tail(@)]
              /\ rpc' = [rpc EXCEPT ![s] = "send"]
         ELSE /\ proc \in {"exited", "killed"}
              /\ rpc' = [rpc EXCEPT ![s] = "defer"]
              /\ UNCHANGED << pipe, rline >>
  /\ UNCHANGED << nonExecVars, envVars, ctxDone, ctxWhileRunning, proc, written, supVars,
                  pipeClosed, ctxKillSent, waiter, errChan, timerFired,
                  outputChan, doneChan, doneSent, waitRet >>

\* outputChan <- line + "\n": blocks while the channel is full.
ReaderSend(s) ==
  /\ rpc[s] = "send"
  /\ Len(Chan(s)) < OutputChanCap
  /\ outputChan' = [outputChan EXCEPT ![s] = Append(@, Stored(rline[s]))]
  /\ rpc' = [rpc EXCEPT ![s] = "scan"]
  /\ UNCHANGED << nonExecVars, envVars, ctxDone, ctxWhileRunning, childVars, supVars,
                  pipeClosed, ctxKillSent, waiter, errChan, timerFired,
                  doneChan, doneSent, rline, waitRet >>

\* defer func() { doneChan <- true }()
ReaderDone(s) ==
  /\ rpc[s] = "defer"
  /\ doneChan < DoneChanCap
  /\ doneChan' = doneChan + 1
  /\ doneSent' = [doneSent EXCEPT ![s] = @ + 1]
  /\ rpc' = [rpc EXCEPT ![s] = "done"]
  /\ UNCHANGED << nonExecVars, envVars, ctxDone, ctxWhileRunning, childVars, supVars,
                  pipeClosed, ctxKillSent, waiter, errChan, timerFired,
                  outputChan, rline, waitRet >>

\* ------------------------------------------------------------ Execute
\* Variants of the definitions below with one plausible slip each; the
\* claims are checked to tell them from the code.
FailedResultCancelled(res, err) ==
  [res EXCEPT !.Status = IF err = ErrCtx THEN StatusCancelled ELSE StatusFailed,
              !.Error = err]
FailedResultNoError(res, err) == [res EXCEPT !.Status = StatusFailed]
BranchKillsAlways(b) == TRUE
BarrierNextOne(n) == IF n = 1 THEN "collect" ELSE "barrier"

\* result.EndTime = time.Now(); result.Duration = result.EndTime.Sub(result.StartTime)
StampEnd(res, t) == [res EXCEPT !.EndTime = t, !.Duration = t - res.StartTime]

\* result.Status = StatusFailed; result.Error = err
FailedResult(res, err) == [res EXCEPT !.Status = StatusFailed, !.Error = err]

\* if result.ExitCode == 0 { Completed } else { Failed }
FinalStatus(code) == IF code = 0 THEN StatusCompleted ELSE StatusFailed

\* Execute after executeCommand has returned err.
FinishExecute(res, err) ==
  IF err # NoError THEN FailedResult(res, err)
  ELSE [res EXCEPT !.Status = FinalStatus(res.ExitCode)]

\* <-doneChan; <-doneChan: where executeCommand goes after it has received
\* n completion signals.
BarrierNext(n) == IF n = 2 THEN "collect" ELSE "barrier"

\* The exit code executeCommand derives from waitErr.
ExitCodeOf(err) ==
  IF err = NoError THEN 0
  ELSE IF err.kind = "ExitError" THEN err.code
  ELSE -1

\* The select cases that call cmd.Process.Kill().
BranchKills(b) == b \in {"cancel", "timeout"}

\* The waitErr a select case assigns; recv is the value received from the
\* goroutine that calls cmd.Wait.
BranchErr(b, recv) ==
  IF b = "cancel" THEN ErrCtx
  ELSE IF b = "timeout" THEN ErrTimeout
  ELSE recv

\* A step of Execute before executeCommand that may fail with err.
EarlyStep(at, next, err) ==
  /\ pc = at
  /\ \E ok \in BOOLEAN :
       IF ok
         THEN pc' = next /\ UNCHANGED << result, retErr, fault >>
         ELSE /\ result' = FailedResult(result, err)
              /\ retErr' = err
              /\ fault' = at
              /\ pc' = "returned"
  /\ UNCHANGED << nonExecVars, envVars, ctxDone, ctxWhileRunning, childVars, readerVars,
                  winner, supKill, waitErr, doneRecv, pipeClosed, ctxKillSent,
                  waiter, errChan, timerFired, waitRet >>

validateOra2pgTool == EarlyStep("validate", "build", ErrToolNotFound)
buildCommandArgs == EarlyStep("build", "prepare", ErrConfigNotFound)
prepareExecutionEnvironment == EarlyStep("prepare", "run", ErrCreateFailed)

\* result.Status = StatusRunning
SetRunning ==
  /\ pc = "run"
  /\ result' = [result EXCEPT !.Status = StatusRunning]
  /\ pc' = "start"
  /\ UNCHANGED << nonExecVars, envVars, ctxDone, ctxWhileRunning, childVars, readerVars,
                  retErr, winner, supKill, waitErr, doneRecv, pipeClosed,
                  ctxKillSent, waiter, errChan, timerFired, fault, waitRet >>

\* cmd.Start() fails (also when ctx is already done): executeCommand returns
\* the start error and Execute returns it with a Failed result.
StartFails ==
  /\ pc = "start"
  /\ \E t \in LaterInstants(result.StartTime) :
       result' = FinishExecute(StampEnd(result, t), ErrStart)
  /\ retErr' = ErrStart
  /\ fault' = "start"
  /\ pc' = "returned"
  /\ UNCHANGED << nonExecVars, envVars, ctxDone, ctxWhileRunning, childVars, readerVars,
                  winner, supKill, waitErr, doneRecv, pipeClosed, ctxKillSent,
                  waiter, errChan, timerFired, waitRet >>

\* cmd.Start() succeeds; the channels are made and the two readers
\* launched; with a timeout the goroutine that calls cmd.Wait is launched
\* on entry to the select.
StartCommand ==
  /\ pc = "start"
  /\ ~ctxDone
  /\ proc' = "running"
  /\ rpc' = [s \in Streams |-> "scan"]
  /\ waiter' = IF optTimeout > 0 THEN "waiting" ELSE "none"
  /\ pc' = IF optTimeout > 0 THEN "select" ELSE "wait"
  /\ UNCHANGED << nonExecVars, envVars, ctxDone, ctxWhileRunning, written, pipe, result,
                  retErr, winner, supKill, waitErr, doneRecv, pipeClosed,
                  ctxKillSent, errChan, timerFired, outputChan, doneChan,
                  doneSent, rline, fault, waitRet >>

\* waitErr = cmd.Wait() (no timeout): returns once the child is dead and
\* closes the read ends of the pipes.
WaitDirect ==
  /\ pc = "wait"
  /\ proc \in {"exited", "killed"}
  /\ pipeClosed' = TRUE
  /\ waitErr' = WaitResult
  /\ waitRet' = WaitResult
  /\ winner' = "exit"
  /\ pc' = "barrier"
  /\ UNCHANGED << nonExecVars, envVars, ctxDone, ctxWhileRunning, childVars, readerVars,
                  result, retErr, supKill, doneRecv, ctxKillSent, waiter,
                  errChan, timerFired, fault >>

\* go func() { errChan <- cmd.Wait() }()
WaitGoroutine ==
  /\ waiter = "waiting"
  /\ proc \in {"exited", "killed"}
  /\ pipeClosed' = TRUE
  /\ errChan' = << WaitResult >>
  /\ waitRet' = WaitResult
  /\ waiter' = "done"
  /\ UNCHANGED << nonExecVars, envVars, ctxDone, ctxWhileRunning, childVars, readerVars,
                  supVars, ctxKillSent, timerFired >>

\* One case of the select is taken among those that are ready.
SelectCase(b) ==
  /\ pc = "select"
  /\ CASE b = "cancel" -> ctxDone
       [] b = "timeout" -> timerFired
       [] b = "exit" -> errChan # <<>>
  /\ winner' = b
  /\ waitErr' = BranchErr(b, IF errChan # <<>> THEN Head(errChan) ELSE NoError)
  /\ errChan' = IF b = "exit" THEN <<>> ELSE errChan
  /\ supKill' = BranchKills(b)
  /\ proc' = IF BranchKills(b) /\ proc = "running" THEN "killed" ELSE proc
  /\ pc' = "barrier"
  /\ UNCHANGED << nonExecVars, envVars, ctxDone, ctxWhileRunning, written, pipe, readerVars,
                  result, retErr, doneRecv, pipeClosed, ctxKillSent, waiter,
                  timerFired, fault, waitRet >>


\* One receive from doneChan.
Barrier ==
  /\ pc = "barrier"
  /\ doneChan > 0
  /\ doneChan' = doneChan - 1
  /\ doneRecv' = doneRecv + 1
  /\ pc' = BarrierNext(doneRecv + 1)
  /\ UNCHANGED << nonExecVars, envVars, ctxDone, ctxWhileRunning, childVars, result, retErr,
                  winner, supKill, waitErr, pipeClosed, ctxKillSent, waiter,
                  errChan, timerFired, outputChan, doneSent, rpc, rline, fault,
                  waitRet >>

\* The channels are closed and drained into result.Output / ErrorOutput,
\* and the exit code is derived from waitErr.
Collect ==
  /\ pc = "collect"
  /\ result' = [result EXCEPT !.Output = Chan("stdout"),
                              !.ErrorOutput = Chan("stderr"),
                              !.ExitCode = ExitCodeOf(waitErr)]
  /\ outputChan' = [s \in Streams |-> <<>>]
  /\ pc' = "finish"
  /\ UNCHANGED << nonExecVars, envVars, ctxDone, ctxWhileRunning, childVars, retErr, winner,
                  supKill, waitErr, doneRecv, pipeClosed, ctxKillSent, waiter,
                  errChan, timerFired, doneChan, doneSent, rpc, rline, fault,
                  waitRet >>

\* Execute, after executeCommand has returned waitErr.
ExecuteReturn ==
  /\ pc = "finish"
  /\ \E t \in LaterInstants(result.StartTime) :
       result' = FinishExecute(StampEnd(result, t), waitErr)
  /\ retErr' = waitErr
  /\ pc' = "returned"
  /\ UNCHANGED << nonExecVars, envVars, ctxDone, ctxWhileRunning, childVars, readerVars,
                  winner, supKill, waitErr, doneRecv, pipeClosed, ctxKillSent,
                  waiter, errChan, timerFired, fault, waitRet >>

Next ==
  \/ CancelCtx
  \/ WatchCtx
  \/ TimerFire
  \/ \E s \in Streams : ChildWrite(s)
  \/ ChildExit
  \/ \E s \in Streams : ReaderScan(s)
  \/ \E s \in Streams : ReaderSend(s)
  \/ \E s \in Streams : ReaderDone(s)
  \/ validateOra2pgTool
  \/ buildCommandArgs
  \/ prepareExecutionEnvironment
  \/ SetRunning
  \/ StartFails
  \/ StartCommand
  \/ WaitDirect
  \/ WaitGoroutine
  \/ \E b \in {"cancel", "timeout", "exit"} : SelectCase(b)
  \/ Barrier
  \/ Collect
  \/ ExecuteReturn

Spec == Init /\ [][Next]_vars

\* The Go scheduler runs every goroutine that can take a step, the OS runs
\* the child, and a started timer fires; nothing makes the caller cancel.
Fairness ==
  /\ WF_vars(WatchCtx)
  /\ WF_vars(TimerFire)
  /\ \A s \in Streams : WF_vars(ChildWrite(s))
  /\ WF_vars(ChildExit)
  /\ \A s \in Streams : WF_vars(ReaderScan(s))
  /\ \A s \in Streams : WF_vars(ReaderSend(s))
  /\ \A s \in Streams : WF_vars(ReaderDone(s))
  /\ WF_vars(validateOra2pgTool \/ buildCommandArgs \/ prepareExecutionEnvironment
             \/ SetRunning \/ StartFails \/ StartCommand)
  /\ WF_vars(WaitDirect)
  /\ WF_vars(WaitGoroutine)
  /\ WF_vars(\E b \in {"cancel", "timeout", "exit"} : SelectCase(b))
  /\ WF_vars(Barrier \/ Collect \/ ExecuteReturn)

FairSpec == Spec /\ Fairness


\* ======================================================= ProgressTracker
\* internal/service/progress.go.  A method that locks pt.mutex is two steps:
\* the call takes the lock, the body runs and releases it.  Each method
\* call reads the clock once.

Alive == panicked = "none"

\* Start: the fields it sets.
StartFields(p, total, t) ==
  [p EXCEPT !.taskName = "task", !.totalSteps = total, !.currentStep = 0,
            !.currentMessage = "ready", !.percentage = 0, !.startTime = t,
            !.lastUpdateTime = t, !.isRunning = TRUE]

\* UpdateStep: the fields it sets on a running tracker.
UpdateStepFields(p, step, t) ==
  [p EXCEPT !.currentStep = step, !.currentMessage = "step",
            !.lastUpdateTime = t,
            !.percentage = IF p.totalSteps > 0 THEN Percent(step, p.totalSteps)
                           ELSE @]

\* UpdateProgress: the fields it sets on a running tracker.
UpdateProgressFields(p, pct, t) ==
  [p EXCEPT !.percentage = pct, !.lastUpdateTime = t]

\* SetMessage and Complete: the fields they set.
SetMessageFields(p, t) ==
  [p EXCEPT !.currentMessage = "message", !.lastUpdateTime = t]
CompleteFields(p, t) ==
  [p EXCEPT !.currentStep = p.totalSteps, !.percentage = 100,
            !.currentMessage = "complete", !.lastUpdateTime = t]

\* The ProgressUpdate that UpdateStep / UpdateProgress send, built from the
\* fields just written.
UpdateOf(p, details) ==
  [Step |-> p.currentStep, Message |-> p.currentMessage,
   Percentage |-> p.percentage, Details |-> details]

\* A send that queues the update whatever the fill level.
TrySendAlways(q, u) == Append(q, u)

\* select { case pt.updateChan <- u: default: } on an open channel.
TrySend(q, u) == IF Len(q) < UpdateChanCap THEN Append(q, u) ELSE q

\* A running tracker whose display loop has not run yet, after Start with
\* two steps and UpdateChanCap calls of UpdateStep(1, ...): the queue is
\* full, and one more call fits the bound on calls.
TrackerBacklog ==
  LET started == StartFields(NewProgressTracker, 2, ZeroTime + 1)
      p == UpdateStepFields(started, 1, ZeroTime + UpdateChanCap + 1)
  IN /\ pt = p
     /\ mutexW = 0
     /\ stopChan = 0
     /\ updateChan = [k \in 1..UpdateChanCap |-> UpdateOf(p, "")]
     /\ updateClosed = FALSE
     /\ loops = << [pc |-> "select", upd |-> ZeroUpdate] >>
     /\ callers = [c \in Callers |-> IdleCaller]
     /\ ncalls = MaxCalls - 1
     /\ trkNow = ZeroTime + UpdateChanCap + 1
     /\ panicked = "none"
     /\ lastRender = NoRender
     /\ everStopped = FALSE
     /\ renderedAfterStop = FALSE

\* No Execute is in progress.
ExecUnused ==
  /\ optTimeout = 0
  /\ plan = [out |-> 0, err |-> 0, ending |-> "exit", code |-> 0]
  /\ ctxDone = FALSE
  /\ ExecFresh

TrackerInit ==
  /\ ExecUnused
  /\ OrchUnused
  /\ ParseFresh
  /\ ArgsUnused
  /\ ReadersUnused
  /\ TrackerFresh \/ TrackerBacklog

Release(c) ==
  /\ callers' = [callers EXCEPT ![c] = IdleCaller]
  /\ mutexW' = 0

InBody(c, ops) == callers[c].pc = "body" /\ callers[c].op \in ops

\* A goroutine calls a method: pt.mutex.Lock() (for AddStep, its
\* GetCurrentStep() under the read lock).
Call(c, op, a) ==
  /\ Alive
  /\ callers[c].pc = "idle"
  /\ ncalls < MaxCalls
  /\ mutexW = 0
  /\ op = "Start" => Len(loops) < MaxStarts
  /\ ncalls' = ncalls + 1
  /\ IF op = "AddStep"
       THEN /\ callers' = [callers EXCEPT ![c] =
                             [pc |-> "addLock", op |-> op, a |-> pt.currentStep + 1]]
            /\ UNCHANGED mutexW
       ELSE /\ callers' = [callers EXCEPT ![c] = [pc |-> "body", op |-> op, a |-> a]]
            /\ mutexW' = c
  /\ UNCHANGED << nonTrkVars, pt, stopChan, updateChan, updateClosed, loops,
                  trkNow, panicked, lastRender, everStopped, renderedAfterStop >>

\* AddStep: pt.UpdateStep(step + 1, ...) takes the lock.
AddStep(c) ==
  /\ Alive
  /\ callers[c].pc = "addLock"
  /\ mutexW = 0
  /\ mutexW' = c
  /\ callers' = [callers EXCEPT ![c].pc = "body"]
  /\ UNCHANGED << nonTrkVars, pt, stopChan, updateChan, updateClosed, loops,
                  ncalls, trkNow, panicked, lastRender, everStopped,
                  renderedAfterStop >>

Start(c) ==
  /\ Alive
  /\ InBody(c, {"Start"})
  /\ trkNow' = trkNow + 1
  /\ pt' = StartFields(pt, callers[c].a, trkNow + 1)
  /\ loops' = Append(loops, [pc |-> "select", upd |-> ZeroUpdate])
  /\ Release(c)
  /\ UNCHANGED << nonTrkVars, stopChan, updateChan, updateClosed, ncalls,
                  panicked, lastRender, everStopped, renderedAfterStop >>

\* pt.stopChan <- true; close(pt.updateChan); return
StopSignal(c) ==
  /\ stopChan' = stopChan + 1
  /\ IF updateClosed
       THEN /\ panicked' = "close of closed channel"
            /\ UNCHANGED << updateClosed, everStopped >>
       ELSE /\ updateClosed' = TRUE
            /\ everStopped' = TRUE
            /\ UNCHANGED panicked
  /\ Release(c)

Stop(c) ==
  /\ Alive
  /\ InBody(c, {"Stop"})
  /\ IF ~pt.isRunning
       THEN /\ Release(c)
            /\ UNCHANGED << pt, stopChan, updateClosed, everStopped, panicked >>
       ELSE /\ pt' = [pt EXCEPT !.isRunning = FALSE]
            /\ IF stopChan < StopChanCap
                 THEN StopSignal(c)
                 ELSE /\ callers' = [callers EXCEPT ![c].pc = "stopSend"]
                      /\ UNCHANGED << mutexW, stopChan, updateClosed,
                                      everStopped, panicked >>
  /\ UNCHANGED << nonTrkVars, updateChan, loops, ncalls, trkNow, lastRender,
                  renderedAfterStop >>

\* Stop, blocked in pt.stopChan <- true with the lock held, goes on.
StopSend(c) ==
  /\ Alive
  /\ callers[c].pc = "stopSend"
  /\ stopChan < StopChanCap
  /\ StopSignal(c)
  /\ UNCHANGED << nonTrkVars, pt, updateChan, loops, ncalls, trkNow, lastRender,
                  renderedAfterStop >>

\* The body of UpdateStep / UpdateProgress: return when not running, else
\* write p and send the update without blocking (a send on a closed
\* channel panics).
UpdateBody(c, p, details) ==
  /\ trkNow' = trkNow + 1
  /\ IF ~pt.isRunning
       THEN UNCHANGED << pt, updateChan, panicked >>
       ELSE /\ pt' = p
            /\ IF updateClosed
                 THEN panicked' = "send on closed channel" /\ UNCHANGED updateChan
                 ELSE updateChan' = TrySend(updateChan, UpdateOf(p, details))
                      /\ UNCHANGED panicked
  /\ Release(c)
  /\ UNCHANGED << nonTrkVars, stopChan, updateClosed, loops, ncalls, lastRender,
                  everStopped, renderedAfterStop >>

UpdateStep(c) ==
  /\ Alive
  /\ InBody(c, {"UpdateStep", "AddStep"})
  /\ UpdateBody(c, UpdateStepFields(pt, callers[c].a, trkNow + 1), "")

UpdateProgress(c) ==
  /\ Alive
  /\ InBody(c, {"UpdateProgress"})
  /\ UpdateBody(c, UpdateProgressFields(pt, callers[c].a, trkNow + 1), "details")

SetMessage(c) ==
  /\ Alive
  /\ InBody(c, {"SetMessage"})
  /\ trkNow' = trkNow + 1
  /\ pt' = SetMessageFields(pt, trkNow + 1)
  /\ Release(c)
  /\ UNCHANGED << nonTrkVars, stopChan, updateChan, updateClosed, loops, ncalls,
                  panicked, lastRender, everStopped, renderedAfterStop >>

Complete(c) ==
  /\ Alive
  /\ InBody(c, {"Complete"})
  /\ trkNow' = trkNow + 1
  /\ pt' = CompleteFields(pt, trkNow + 1)
  /\ Release(c)
  /\ UNCHANGED << nonTrkVars, stopChan, updateChan, updateClosed, loops, ncalls,
                  panicked, lastRender, everStopped, renderedAfterStop >>

\* ---- displayProgress: for { select { stopChan / updateChan / ticker.C } }
LoopAt(l, at) == l \in 1..Len(loops) /\ loops[l].pc = at
LoopTo(l, to, u) == loops' = [loops EXCEPT ![l] = [pc |-> to, upd |-> u]]

\* What a display loop prints marks the tracker as rendered after Stop when
\* Stop has returned and the tracker has not been started again.
Render(r) ==
  /\ lastRender' = r
  /\ renderedAfterStop' = (renderedAfterStop \/ (everStopped /\ ~pt.isRunning))

\* case <-pt.stopChan: return
displayProgressStop(l) ==
  /\ Alive
  /\ LoopAt(l, "select")
  /\ stopChan > 0
  /\ stopChan' = stopChan - 1
  /\ LoopTo(l, "exited", ZeroUpdate)
  /\ UNCHANGED << nonTrkVars, pt, mutexW, updateChan, updateClosed, callers,
                  ncalls, trkNow, panicked, lastRender, everStopped,
                  renderedAfterStop >>

\* case update := <-pt.updateChan (a closed, empty channel gives the zero
\* ProgressUpdate).
displayProgressUpdate(l) ==
  /\ Alive
  /\ LoopAt(l, "select")
  /\ updateChan # <<>> \/ updateClosed
  /\ IF updateChan # <<>>
       THEN LoopTo(l, "handle", Head(updateChan)) /\ updateChan' = Tail(updateChan)
       ELSE LoopTo(l, "handle", ZeroUpdate) /\ UNCHANGED updateChan
  /\ UNCHANGED << nonTrkVars, pt, mutexW, stopChan, updateClosed, callers,
                  ncalls, trkNow, panicked, lastRender, everStopped,
                  renderedAfterStop >>

\* case <-ticker.C
displayProgressTick(l) ==
  /\ Alive
  /\ LoopAt(l, "select")
  /\ LoopTo(l, "refresh", ZeroUpdate)
  /\ UNCHANGED << nonTrkVars, pt, mutexW, stopChan, updateChan, updateClosed,
                  callers, ncalls, trkNow, panicked, lastRender, everStopped,
                  renderedAfterStop >>

\* handleProgressUpdate: prints the update with pt.totalSteps and (in
\* printProgressBar) pt.percentage, read without the lock.
handleProgressUpdate(l) ==
  /\ Alive
  /\ LoopAt(l, "handle")
  /\ Render([kind |-> "update", step |-> loops[l].upd.Step,
             total |-> pt.totalSteps, message |-> loops[l].upd.Message,
             percentage |-> pt.percentage])
  /\ LoopTo(l, "select", ZeroUpdate)
  /\ UNCHANGED << nonTrkVars, pt, mutexW, stopChan, updateChan, updateClosed,
                  callers, ncalls, trkNow, panicked, everStopped >>

\* refreshDisplay: under the read lock, prints the fields when running.
refreshDisplay(l) ==
  /\ Alive
  /\ LoopAt(l, "refresh")
  /\ mutexW = 0
  /\ IF pt.isRunning
       THEN Render([kind |-> "tick", step |-> pt.currentStep,
                    total |-> pt.totalSteps, message |-> pt.currentMessage,
                    percentage |-> pt.percentage])
       ELSE UNCHANGED << lastRender, renderedAfterStop >>
  /\ LoopTo(l, "select", ZeroUpdate)
  /\ UNCHANGED << nonTrkVars, pt, mutexW, stopChan, updateChan, updateClosed,
                  callers, ncalls, trkNow, panicked, everStopped >>

TrackerNext ==
  \/ \E c \in Callers : \E a \in Totals : Call(c, "Start", a)
  \/ \E c \in Callers : \E a \in StepArgs : Call(c, "UpdateStep", a)
  \/ \E c \in Callers : \E a \in PctArgs : Call(c, "UpdateProgress", a)
  \/ \E c \in Callers : \E op \in {"Stop", "SetMessage", "AddStep", "Complete"} :
        Call(c, op, 0)
  \/ \E c \in Callers : AddStep(c)
  \/ \E c \in Callers : Start(c)
  \/ \E c \in Callers : Stop(c)
  \/ \E c \in Callers : StopSend(c)
  \/ \E c \in Callers : UpdateStep(c)
  \/ \E c \in Callers : UpdateProgress(c)
  \/ \E c \in Callers : SetMessage(c)
  \/ \E c \in Callers : Complete(c)
  \/ \E l \in 1..MaxStarts : displayProgressStop(l)
  \/ \E l \in 1..MaxStarts : displayProgressUpdate(l)
  \/ \E l \in 1..MaxStarts : displayProgressTick(l)
  \/ \E l \in 1..MaxStarts : handleProgressUpdate(l)
  \/ \E l \in 1..MaxStarts : refreshDisplay(l)

TrackerSpec == TrackerInit /\ [][TrackerNext]_vars

\* printProgressBar: barWidth, and the cells it draws filled and empty.
BarWidth == 30
BarFilled(percentage) == (percentage * BarWidth) \div 100
BarEmpty(percentage) == BarWidth - BarFilled(percentage)

\* ==================================================== ExecuteWithProgress
\* internal/service/migration.go.  Execute is one call and one return here:
\* what it returns is built with the operators of Execute above, and it may
\* never return.  The tracker is called by this goroutine only.

MaxSteps == 3
TypeNames == {"TABLE", "VIEW"}
StepLists == UNION { [1..n -> TypeNames] : n \in 0..MaxSteps }

\* The errors Execute can return for a step, given whether ctx is done.
StepErrors(cancelled) ==
  {NoError, ExitError(3), ErrToolNotFound} \cup
  (IF cancelled THEN {ErrCtx} ELSE {})

\* The (result, err) Execute returns with err.
ExecuteOutcome(err) ==
  IF err \in {ErrToolNotFound, ErrConfigNotFound, ErrCreateFailed}
    THEN FailedResult(NewResult, err)
    ELSE FinishExecute(
           StampEnd([NewResult EXCEPT !.ExitCode = ExitCodeOf(err)], FirstInstant),
           err)

\* A tracker on which Start(name, total) has been called.
TrackerStarted(total) ==
  /\ pt = StartFields(NewProgressTracker, total, ZeroTime + 1)
  /\ mutexW = 0
  /\ stopChan = 0
  /\ updateChan = <<>>
  /\ updateClosed = FALSE
  /\ loops = << [pc |-> "select", upd |-> ZeroUpdate] >>
  /\ callers = [c \in Callers |-> IdleCaller]
  /\ ncalls = 0
  /\ trkNow = ZeroTime + 1
  /\ panicked = "none"
  /\ lastRender = NoRender
  /\ everStopped = FALSE
  /\ renderedAfterStop = FALSE

OrchInit ==
  /\ ExecUnused
  /\ ParseFresh
  /\ ArgsUnused
  /\ ReadersUnused
  /\ migrationTypes \in StepLists
  /\ ctxCancelled \in BOOLEAN
  /\ envOk \in BOOLEAN
  /\ cfgOk \in BOOLEAN
  /\ OrchEntry
  /\ TrackerFresh \/ TrackerStarted(Len(migrationTypes))

trkRest == << mutexW, stopChan, updateClosed, loops, callers, ncalls, panicked,
              lastRender, everStopped, renderedAfterStop >>

\* The step loop, on seeing that ctx is done: returns instead of starting
\* the step.
CancelIgnored(cancelled) == FALSE
CancelStops(cancelled) == cancelled

\* The step loop after a step has returned err: logs, and goes on.
StepAbortsOnError(err) == err # NoError
StepAborts(err) == FALSE

\* What ExecuteWithProgress does with the error of generateOra2pgConfig:
\* logs a warning and goes on.
ConfigFailurePropagates(err) == err
ConfigFailureErr(err) == NoError

\* return rs, err
Return(rs, isNil, err) ==
  /\ ret' = [results |-> rs, nilResults |-> isNil, err |-> err]
  /\ mpc' = "returned"

\* ctx is cancelled by its owner.
CancelMigration ==
  /\ mpc # "returned"
  /\ ~ctxCancelled
  /\ ctxCancelled' = TRUE
  /\ UNCHANGED << nonOrchVars, trkVars, migrationTypes, envOk, cfgOk, msState,
                  mpc, idx, results, ret, execLog >>

\* ms.state.TotalSteps = len(migrationTypes) ... IsCancelled = false
InitState ==
  /\ mpc = "entry"
  /\ msState' = [msState EXCEPT !.TotalSteps = Len(migrationTypes),
                                !.CompletedSteps = 0,
                                !.IsCompleted = FALSE,
                                !.IsCancelled = FALSE]
  /\ mpc' = "prepare"
  /\ UNCHANGED << nonOrchVars, trkVars, migrationTypes, ctxCancelled, envOk,
                  cfgOk, idx, results, ret, execLog >>

\* if err := ms.prepareEnvironment(); err != nil { return nil, err }
prepareEnvironment ==
  /\ mpc = "prepare"
  /\ IF envOk
       THEN mpc' = "config" /\ UNCHANGED ret
       ELSE Return(<<>>, TRUE, ErrCreateFailed)
  /\ UNCHANGED << nonOrchVars, trkVars, migrationTypes, ctxCancelled, envOk,
                  cfgOk, msState, idx, results, execLog >>

\* generateOra2pgConfig, then results := make(...) and the loop is entered.
generateOra2pgConfig ==
  /\ mpc = "config"
  /\ LET err == IF cfgOk THEN NoError ELSE ConfigFailureErr(ErrCreateFailed)
     IN IF err # NoError
          THEN Return(<<>>, TRUE, err) /\ UNCHANGED << idx, results >>
          ELSE /\ results' = <<>>
               /\ idx' = 1
               /\ mpc' = "loop"
               /\ UNCHANGED ret
  /\ UNCHANGED << nonOrchVars, trkVars, migrationTypes, ctxCancelled, envOk,
                  cfgOk, msState, execLog >>

\* case <-ctx.Done(): IsCancelled = true; return results, ctx.Err()
LoopCancelled ==
  /\ mpc = "loop"
  /\ idx <= Len(migrationTypes)
  /\ CancelStops(ctxCancelled)
  /\ msState' = [msState EXCEPT !.IsCancelled = TRUE]
  /\ Return(results, FALSE, ErrCtx)
  /\ UNCHANGED << nonOrchVars, trkVars, migrationTypes, ctxCancelled, envOk,
                  cfgOk, idx, results, execLog >>

\* default: the step begins: CurrentType, progressTracker.UpdateStep(i+1),
\* and executeSingleMigration calls Execute.
BeginStep ==
  /\ mpc = "loop"
  /\ idx <= Len(migrationTypes)
  /\ ~CancelStops(ctxCancelled)
  /\ msState' = [msState EXCEPT !.CurrentType = migrationTypes[idx]]
  /\ trkNow' = trkNow + 1
  /\ IF pt.isRunning
       THEN LET p == UpdateStepFields(pt, idx, trkNow + 1)
            IN pt' = p /\ updateChan' = TrySend(updateChan, UpdateOf(p, ""))
       ELSE UNCHANGED << pt, updateChan >>
  /\ execLog' = Append(execLog, [ev |-> "call", step |-> idx,
                                  result |-> NewResult, err |-> NoError])
  /\ mpc' = "execute"
  /\ UNCHANGED << nonOrchVars, trkRest, migrationTypes, ctxCancelled, envOk,
                  cfgOk, idx, results, ret >>

\* Execute returns (result, err): the result is appended, CompletedSteps
\* counted, progressTracker.UpdateProgress called, and the loop goes on.
ExecuteReturns ==
  /\ mpc = "execute"
  /\ \E err \in StepErrors(ctxCancelled) : \E pct \in PctArgs :
       LET r == ExecuteOutcome(err)
       IN /\ execLog' = Append(execLog, [ev |-> "return", step |-> idx,
                                          result |-> r, err |-> err])
          /\ results' = Append(results, r)
          /\ msState' = [msState EXCEPT !.Results = Append(@, r),
                                        !.CompletedSteps = @ + 1]
          /\ trkNow' = trkNow + 1
          /\ IF pt.isRunning
               THEN LET p == UpdateProgressFields(pt, pct, trkNow + 1)
                    IN pt' = p
                       /\ updateChan' = TrySend(updateChan, UpdateOf(p, "details"))
               ELSE UNCHANGED << pt, updateChan >>
          /\ IF StepAborts(err)
               THEN Return(Append(results, r), FALSE, err) /\ UNCHANGED idx
               ELSE idx' = idx + 1 /\ mpc' = "loop" /\ UNCHANGED ret
  /\ UNCHANGED << nonOrchVars, trkRest, migrationTypes, ctxCancelled, envOk, cfgOk >>

\* After the last step: IsCompleted = true; return results, nil
LoopEnd ==
  /\ mpc = "loop"
  /\ idx > Len(migrationTypes)
  /\ msState' = [msState EXCEPT !.IsCompleted = TRUE]
  /\ Return(results, FALSE, NoError)
  /\ UNCHANGED << nonOrchVars, trkVars, migrationTypes, ctxCancelled, envOk,
                  cfgOk, idx, results, execLog >>

OrchNext ==
  \/ CancelMigration
  \/ InitState
  \/ prepareEnvironment
  \/ generateOra2pgConfig
  \/ LoopCancelled
  \/ BeginStep
  \/ ExecuteReturns
  \/ LoopEnd

OrchSpec == OrchInit /\ [][OrchNext]_vars

\* ---- goroutines that each call AddStep on a running tracker
AddStepInit ==
  /\ ExecUnused
  /\ OrchUnused
  /\ ParseFresh
  /\ ArgsUnused
  /\ ReadersUnused
  /\ TrackerStarted(MaxCalls)

AddStepNext ==
  \/ \E c \in Callers : Call(c, "AddStep", 0)
  \/ \E c \in Callers : AddStep(c)
  \/ \E c \in Callers : UpdateStep(c)
  \/ \E l \in 1..MaxStarts : displayProgressUpdate(l)
  \/ \E l \in 1..MaxStarts : displayProgressTick(l)
  \/ \E l \in 1..MaxStarts : handleProgressUpdate(l)
  \/ \E l \in 1..MaxStarts : refreshDisplay(l)

AddStepSpec == AddStepInit /\ [][AddStepNext]_vars

\* ========================================================== parseProgress
\* internal/service/ora2pg.go.  A line is what the four patterns can see of
\* it: an optional "INFO: " at its start and, somewhere in it, the text
\* each of the first three patterns finds, if any (the patterns are not
\* anchored, so one line can hold several).  A run of digits is its value
\* and whether strconv accepts it (it does not when the value is out of
\* range).

MaxCount == 2
MaxParsed == 2

Digits ==
  {[ok |-> TRUE, v |-> n] : n \in 0..MaxCount} \cup
  {[ok |-> FALSE, v |-> MaxCount + 1]}

ProcessingText(c, n) ==
  [kind |-> "Processing", what |-> "table", name |-> "T1", done |-> c,
   total |-> n]
ExportedText(r) == [kind |-> "Exported", rows |-> r]
TotalRowsText(r) == [kind |-> "TotalRows", rows |-> r]

Prefixes == {"", "INFO"}

\* Lines in which at most one of the first three patterns finds text.
SingleLines ==
  {LineOf(x, ProcessingText(c, n), NoMatch, NoMatch) :
     x \in Prefixes, c \in Digits, n \in Digits} \cup
  {LineOf(x, NoMatch, ExportedText(r), NoMatch) : x \in Prefixes, r \in Digits} \cup
  {LineOf(x, NoMatch, NoMatch, TotalRowsText(r)) : x \in Prefixes, r \in Digits} \cup
  {LineOf(x, NoMatch, NoMatch, NoMatch) : x \in Prefixes}

\* Lines in which several patterns find text, such as
\* "INFO: Processing table: T1 (1/2) Exported 1 rows Total rows: 1".
MixedLines ==
  LET one == [ok |-> TRUE, v |-> 1]
      two == [ok |-> TRUE, v |-> 2]
  IN {LineOf(x, a, b, c) :
        x \in Prefixes,
        a \in {NoMatch, ProcessingText(one, two)},
        b \in {NoMatch, ExportedText(one)},
        c \in {NoMatch, TotalRowsText(one)}}

Lines == SingleLines \cup MixedLines

RECURSIVE GCD(_, _)
GCD(a, b) == IF b = 0 THEN a ELSE GCD(b, a % b)

\* float64(n) / float64(d): the quotient in lowest terms; with d = 0 it is
\* NaN (0/0) or +Inf (1/0), not a panic.
Quotient(n, d) ==
  IF d = 0 THEN [n |-> IF n = 0 THEN 0 ELSE 1, d |-> 0]
  ELSE [n |-> n \div GCD(n, d), d |-> d \div GCD(n, d)]

\* A guard that lets every total through.
TotalAny(total) == TRUE

\* if total > 0
TotalPositive(total) == total > 0

\* The handler of "Processing what: name (done/total)".
HandleProcessing(b, p) ==
  LET p1 == [p EXCEPT !.CurrentStep = << b.what, b.name >>]
      p2 == IF b.done.ok THEN [p1 EXCEPT !.CompletedSteps = b.done.v] ELSE p1
  IN IF ~b.total.ok THEN p2
     ELSE LET p3 == [p2 EXCEPT !.TotalSteps = b.total.v]
          IN IF TotalPositive(b.total.v)
               THEN [p3 EXCEPT !.Percentage =
                                  Quotient(p3.CompletedSteps * 100, b.total.v)]
               ELSE p3

\* The handlers of "Exported n rows" and "Total rows: n".
HandleExported(b, p) ==
  [p EXCEPT !.ProcessedRows = IF b.rows.ok THEN b.rows.v ELSE @,
            !.Message = << "exported", b.rows.v >>]
HandleTotalRows(b, p) ==
  [p EXCEPT !.TotalRows = IF b.rows.ok THEN b.rows.v ELSE @]

\* The handler of "^(INFO|WARNING|ERROR): text": the message is the rest
\* of the line.
HandleStatus(line, p) ==
  [p EXCEPT !.Message = << "rest", line.proc, line.exported, line.totalRows >>]

\* The handlers of all the patterns that match, in order.
parseProgressAll(line, p) ==
  LET p1 == IF line.proc # NoMatch THEN HandleProcessing(line.proc, p) ELSE p
      p2 == IF line.exported # NoMatch THEN HandleExported(line.exported, p1)
            ELSE p1
      p3 == IF line.totalRows # NoMatch THEN HandleTotalRows(line.totalRows, p2)
            ELSE p2
  IN IF line.prefix # "" THEN HandleStatus(line, p3) ELSE p3

\* parseProgress on a non-nil ProgressInfo: the handler of the first
\* pattern that matches, or nothing.
parseProgress(line, p) ==
  IF line.proc # NoMatch THEN HandleProcessing(line.proc, p)
  ELSE IF line.exported # NoMatch THEN HandleExported(line.exported, p)
  ELSE IF line.totalRows # NoMatch THEN HandleTotalRows(line.totalRows, p)
  ELSE IF line.prefix # "" THEN HandleStatus(line, p)
  ELSE p

ParseInit ==
  /\ ExecUnused
  /\ OrchUnused
  /\ TrackerFresh
  /\ ParseFresh
  /\ ArgsUnused
  /\ ReadersUnused

\* s.parseProgress(line, result.Progress) for the next line.
ParseLine(line) ==
  /\ nparsed < MaxParsed
  /\ prior' = progress
  /\ lastLine' = line
  /\ progress' = parseProgress(line, progress)
  /\ nparsed' = nparsed + 1
  /\ UNCHANGED nonParseVars

ParseNext == \E line \in Lines : ParseLine(line)

ParseSpec == ParseInit /\ [][ParseNext]_vars

\* ============================================================ readOutput
\* internal/service/ora2pg.go.  executeCommand starts one readOutput per
\* stream, both with the same result, and each calls parseProgress on
\* result.Progress for every line it scans, with no lock.  A handler is a
\* run of field writes; the two goroutines interleave at the single
\* writes.

MaxReaderLines == 1

\* The lines a stream delivers here: one pattern each, digits in range.
RaceLines ==
  {l \in SingleLines :
     /\ l.prefix = "" \/ (l.proc = NoMatch /\ l.exported = NoMatch
                           /\ l.totalRows = NoMatch)
     /\ l.proc # NoMatch =>
          l.proc.done.ok /\ l.proc.total.ok /\ l.proc.done.v > 0
     /\ l.exported # NoMatch => l.exported.rows.ok /\ l.exported.rows.v > 0
     /\ l.totalRows # NoMatch => l.totalRows.rows.ok /\ l.totalRows.rows.v > 0}

StreamInputs ==
  UNION {[1..n -> RaceLines] : n \in 0..MaxReaderLines}

ReadersInit ==
  /\ ExecUnused
  /\ OrchUnused
  /\ TrackerFresh
  /\ ParseFresh
  /\ ArgsUnused
  /\ rdInput \in [Streams -> StreamInputs]
  /\ rdNext = [s \in Streams |-> 1]
  /\ rdAt = [s \in Streams |-> "scan"]

\* The line stream s is parsing.
ReaderLine(s) == rdInput[s][rdNext[s]]

\* The first write of the handler of the first pattern that matches, or
\* "scan" when none does.
HandlerEntry(line) ==
  IF line.proc # NoMatch THEN "CurrentStep"
  ELSE IF line.exported # NoMatch THEN "ProcessedRows"
  ELSE IF line.totalRows # NoMatch THEN "TotalRows"
  ELSE IF line.prefix # "" THEN "Message"
  ELSE "scan"

\* The write a handler makes at position at, on the ProgressInfo p as it
\* is at that moment.
HandlerWrite(line, at, p) ==
  CASE at = "CurrentStep" ->
         [p EXCEPT !.CurrentStep = << line.proc.what, line.proc.name >>]
    [] at = "CompletedSteps" ->
         IF line.proc.done.ok
           THEN [p EXCEPT !.CompletedSteps = line.proc.done.v] ELSE p
    [] at = "TotalSteps" ->
         IF line.proc.total.ok
           THEN [p EXCEPT !.TotalSteps = line.proc.total.v] ELSE p
    [] at = "Percentage" ->
         [p EXCEPT !.Percentage =
                      Quotient(p.CompletedSteps * 100, line.proc.total.v)]
    [] at = "ProcessedRows" ->
         IF line.exported.rows.ok
           THEN [p EXCEPT !.ProcessedRows = line.exported.rows.v] ELSE p
    [] at = "ExportedMessage" ->
         [p EXCEPT !.Message = << "exported", line.exported.rows.v >>]
    [] at = "TotalRows" -> HandleTotalRows(line.totalRows, p)
    [] at = "Message" -> HandleStatus(line, p)

\* The position after the write at position at; "scan" when the handler
\* has returned.
HandlerAfter(line, at) ==
  CASE at = "CurrentStep" -> "CompletedSteps"
    [] at = "CompletedSteps" -> "TotalSteps"
    [] at = "TotalSteps" ->
         IF line.proc.total.ok /\ TotalPositive(line.proc.total.v)
           THEN "Percentage" ELSE "scan"
    [] at = "ProcessedRows" -> "ExportedMessage"
    [] at \in {"Percentage", "ExportedMessage", "TotalRows", "Message"} ->
         "scan"

\* scanner.Scan() returns a line; the patterns are tried in order.
readOutputScan(s) ==
  /\ rdAt[s] = "scan"
  /\ rdNext[s] <= Len(rdInput[s])
  /\ LET at == HandlerEntry(ReaderLine(s))
     IN /\ rdAt' = [rdAt EXCEPT ![s] = at]
        /\ rdNext' = [rdNext EXCEPT ![s] = IF at = "scan" THEN @ + 1 ELSE @]
  /\ UNCHANGED << rdInput, parseVars, execVars, trkVars, orchVars, argsVars >>

\* One write of the handler.
readOutputHandler(s) ==
  /\ rdAt[s] \notin {"scan", "done"}
  /\ LET line == ReaderLine(s)
         at == HandlerAfter(line, rdAt[s])
     IN /\ progress' = HandlerWrite(line, rdAt[s], progress)
        /\ rdAt' = [rdAt EXCEPT ![s] = at]
        /\ rdNext' = [rdNext EXCEPT ![s] = IF at = "scan" THEN @ + 1 ELSE @]
  /\ UNCHANGED << rdInput, prior, lastLine, nparsed,
                  execVars, trkVars, orchVars, argsVars >>

\* scanner.Scan() returns false: the deferred doneChan <- true.
readOutputDone(s) ==
  /\ rdAt[s] = "scan"
  /\ rdNext[s] > Len(rdInput[s])
  /\ rdAt' = [rdAt EXCEPT ![s] = "done"]
  /\ UNCHANGED << rdInput, rdNext, parseVars,
                  execVars, trkVars, orchVars, argsVars >>

ReadersNext ==
  \E s \in Streams :
    \/ readOutputScan(s)
    \/ readOutputHandler(s)
    \/ readOutputDone(s)

ReadersSpec == ReadersInit /\ [][ReadersNext]_vars

\* parseProgress on the lines of a sequence, one after the other.
RECURSIVE ParseAll(_, _)
ParseAll(lines, p) ==
  IF lines = << >> THEN p
  ELSE ParseAll(Tail(lines), parseProgress(Head(lines), p))

\* The sequences that hold the lines of a and of b, each in its own order.
RECURSIVE Merges(_, _)
Merges(a, b) ==
  IF a = << >> THEN {b}
  ELSE IF b = << >> THEN {a}
  ELSE {<< Head(a) >> \o m : m \in Merges(Tail(a), b)} \cup
       {<< Head(b) >> \o m : m \in Merges(a, Tail(b))}

\* ======================================================= buildCommandArgs
\* internal/service/ora2pg.go.

ConfigFiles == {"", "ora2pg.conf"}
OutputDirs == {"", "output"}
LogFiles == {"", "run.log"}

OptionSets ==
  [ConfigFile : ConfigFiles, OutputDir : OutputDirs, Verbose : BOOLEAN,
   DryRun : BOOLEAN, LogFile : LogFiles]

\* The arguments with "-n" put before "-v".
CommandArgsDryRunFirst(ty, o, exists) ==
  IF o.ConfigFile # "" /\ ~exists
    THEN [done |-> TRUE, args |-> << >>, err |-> ErrConfigNotFound]
    ELSE LET a0 == << "ora2pg" >>
             a1 == IF o.ConfigFile # ""
                     THEN Append(Append(a0, "-c"), o.ConfigFile) ELSE a0
             a2 == Append(Append(a1, "-t"), ty)
             a3 == IF o.OutputDir # ""
                     THEN Append(Append(a2, "-o"), o.OutputDir) ELSE a2
             a4 == IF o.DryRun THEN Append(a3, "-n") ELSE a3
             a5 == IF o.Verbose THEN Append(a4, "-v") ELSE a4
             a6 == IF o.LogFile # ""
                     THEN Append(Append(a5, "-l"), o.LogFile) ELSE a5
         IN [done |-> TRUE, args |-> a6, err |-> NoError]

\* buildCommandArgs(migrationType, options), exists being what
\* FileExists(options.ConfigFile) answers.
CommandArgs(ty, o, exists) ==
  IF o.ConfigFile # "" /\ ~exists
    THEN [done |-> TRUE, args |-> << >>, err |-> ErrConfigNotFound]
    ELSE LET a0 == << "ora2pg" >>
             a1 == IF o.ConfigFile # ""
                     THEN Append(Append(a0, "-c"), o.ConfigFile) ELSE a0
             a2 == Append(Append(a1, "-t"), ty)
             a3 == IF o.OutputDir # ""
                     THEN Append(Append(a2, "-o"), o.OutputDir) ELSE a2
             a4 == IF o.Verbose THEN Append(a3, "-v") ELSE a3
             a5 == IF o.DryRun THEN Append(a4, "-n") ELSE a4
             a6 == IF o.LogFile # ""
                     THEN Append(Append(a5, "-l"), o.LogFile) ELSE a5
         IN [done |-> TRUE, args |-> a6, err |-> NoError]

ArgsInit ==
  /\ ExecUnused
  /\ OrchUnused
  /\ TrackerFresh
  /\ ParseFresh
  /\ ReadersUnused
  /\ bType \in TypeNames
  /\ bOptions \in OptionSets
  /\ bExists \in BOOLEAN
  /\ bOut = NotBuilt

\* args, err := s.buildCommandArgs(migrationType, options)
BuildArgs ==
  /\ ~bOut.done
  /\ bOut' = CommandArgs(bType, bOptions, bExists)
  /\ UNCHANGED << execVars, trkVars, orchVars, parseVars, rdVars, bType,
                  bOptions, bExists >>

ArgsNext == BuildArgs

ArgsSpec == ArgsInit /\ [][ArgsNext]_vars

\* ----------------------------------------------------------------- claims
Dead == proc \in {"exited", "killed"}
Returned == pc = "returned"
\* executeCommand started the child (the cases about a running process).
Started == proc # "none"
\* The lines the child has written to stream s, in the order written.
WrittenLines(s) == [k \in 1..written[s] |-> RawLine(s, k)]

\* A step of Execute, a reader, the waiter, the timer or the context
\* watcher: everything but the caller's cancel (the child has exited).
ProgramStep ==
  \/ WatchCtx
  \/ TimerFire
  \/ \E s \in Streams : ReaderScan(s) \/ ReaderSend(s) \/ ReaderDone(s)
  \/ WaitDirect
  \/ WaitGoroutine
  \/ \E b \in {"cancel", "timeout", "exit"} : SelectCase(b)
  \/ Barrier
  \/ Collect
  \/ ExecuteReturn

\* C1: once a child that ends on its own has exited, whatever the number of
\* lines it wrote to either stream, Execute has returned or some goroutine
\* can still take a step: no state has the readers and executeCommand all
\* blocked for ever.
C1_ExecuteReturns ==
  (plan.ending = "exit" /\ proc = "exited" /\ ~Returned) => ENABLED ProgramStep

\* C2: with a timeout set and a child that never exits on its own, once the
\* timeout case is taken the child is killed and Execute returns Failed,
\* exit code -1, with the timeout error in result.Error and as its error.
C2_TimeoutEnforced ==
  (optTimeout > 0 /\ plan.ending = "hang" /\ winner = "timeout")
    ~> ( /\ Returned
         /\ proc = "killed"
         /\ result.Status = StatusFailed
         /\ result.ExitCode = -1
         /\ result.Error = ErrTimeout
         /\ retErr = ErrTimeout )

\* C3: when Execute returns after running the child, Output holds exactly
\* the lines written to stdout and ErrorOutput those written to stderr,
\* newline-terminated, in the order written.
C3_OutputComplete ==
  (Returned /\ Started) =>
    /\ result.Output = WrittenLines("stdout")
    /\ result.ErrorOutput = WrittenLines("stderr")


\* C4: a reader that has finished has sent exactly one completion signal
\* (and one that has not, none), the send finds room in doneChan, and the
\* result is assembled only after exactly two signals have been received.
C4_CompletionBarrier ==
  /\ \A s \in Streams : doneSent[s] = (IF rpc[s] = "done" THEN 1 ELSE 0)
  /\ \A s \in Streams : rpc[s] = "defer" => doneChan < DoneChanCap
  /\ doneRecv <= 2
  /\ (pc \in {"collect", "finish"} \/ (Returned /\ Started)) =>
       /\ doneRecv = 2
       /\ \A s \in Streams : rpc[s] = "done"
  /\ (result.Output # <<>> \/ result.ErrorOutput # <<>>) => doneRecv = 2

C4_Witness ==
  /\ Returned
  /\ winner = "timeout"
  /\ doneRecv = 2
  /\ result.Output # <<>>
  /\ result.ErrorOutput # <<>>

C6_CancelReturnsCtxErr ==
  (Returned /\ ctxWhileRunning /\ plan.ending = "hang") =>
    /\ proc = "killed"
    /\ result.Status = StatusFailed
    /\ result.ExitCode = -1
    /\ result.Error = ErrCtx
    /\ retErr = ErrCtx

\* C7: after executeCommand, ExitCode is 0 iff the process exited cleanly,
\* is the reported code after a non-zero exit, is -1 when the process was
\* killed or the cancel or timeout case was taken, and the returned error
\* is nil exactly when the process exited cleanly.
C7_ExitCode ==
  (Returned /\ fault \in {"none", "start"}) =>
    /\ result.ExitCode = 0 <=> (proc = "exited" /\ plan.code = 0)
    /\ (proc = "exited" /\ plan.code # 0) => result.ExitCode = plan.code
    /\ (proc = "killed" \/ winner \in {"cancel", "timeout"}) => result.ExitCode = -1
    /\ retErr = NoError <=> (proc = "exited" /\ plan.code = 0)

\* C8: every result Execute returns is Completed iff its ExitCode is 0, and
\* Failed otherwise.
C8_StatusIffExitCode ==
  Returned =>
    /\ result.Status = StatusCompleted <=> result.ExitCode = 0
    /\ result.Status # StatusCompleted => result.Status = StatusFailed

Rank(st) ==
  IF st = StatusPending THEN 0 ELSE IF st = StatusRunning THEN 1 ELSE 2

\* C9: the status never moves back, never changes once it is Completed,
\* Failed or Cancelled, and Execute returns only with Completed or Failed.
C9_StatusLifecycle ==
  [][ /\ Rank(result'.Status) >= Rank(result.Status)
      /\ Rank(result.Status) = 2 => result'.Status = result.Status
      /\ pc' = "returned" => result'.Status \in {StatusCompleted, StatusFailed}
    ]_vars

C9_Witness ==
  /\ Returned
  /\ winner = "cancel"
  /\ result.Status = StatusFailed
  /\ result.Error = ErrCtx

\* C10: when the tool is not found or the process fails to start, Execute
\* has returned at once with a non-nil error and a Failed result carrying
\* that error; no child runs and no reader or waiter was launched.
C10_StartFailure ==
  fault \in {"validate", "start"} =>
    /\ Returned
    /\ retErr # NoError
    /\ result.Status = StatusFailed
    /\ result.Error = retErr
    /\ proc = "none"
    /\ \A s \in Streams : rpc[s] = "idle"
    /\ waiter = "none"
    /\ doneChan = 0

C10_Witness ==
  /\ fault = "start"
  /\ Returned
  /\ result.Status = StatusFailed
  /\ result.Error = ErrStart


\* C11: every result Execute returns has EndTime at or after StartTime and
\* Duration = EndTime - StartTime.
C11_TimeBookkeeping ==
  Returned =>
    /\ result.EndTime >= result.StartTime
    /\ result.Duration = result.EndTime - result.StartTime

\* -------------------------------------------- ExecuteWithProgress claims

MigrationReturned == mpc = "returned"

\* Execute is called for steps 1, 2, ... in order, each call after the
\* return of the one before.
OneAtATime ==
  \A k \in 1..Len(execLog) :
    /\ execLog[k].ev = (IF k % 2 = 1 THEN "call" ELSE "return")
    /\ execLog[k].step = (k + 1) \div 2

\* rs holds what Execute returned for steps 1..n, in order.
OutcomesOf(rs, n) ==
  /\ Len(rs) = n
  /\ Len(execLog) = 2 * n
  /\ \A i \in 1..n : rs[i] = execLog[2 * i].result

\* C12: with ctx never cancelled and the environment prepared, every step
\* is run exactly once, in list order, one at a time, and
\* ExecuteWithProgress returns len(steps) results, results[i] the outcome
\* of step i, and a nil error, whatever steps fail.
C12_BestEffort ==
  /\ OneAtATime
  /\ (MigrationReturned /\ ~ctxCancelled /\ envOk) =>
       /\ ret.err = NoError
       /\ ~ret.nilResults
       /\ OutcomesOf(ret.results, Len(migrationTypes))

C12_Witness ==
  /\ MigrationReturned
  /\ ~ctxCancelled
  /\ Len(ret.results) = 3
  /\ ret.results[1].Status = StatusCompleted
  /\ ret.results[2].Status = StatusFailed
  /\ ret.results[2].ExitCode = 3
  /\ ret.results[3].Status = StatusCompleted
  /\ ret.err = NoError

\* C13: when ctx is already cancelled as step i is about to begin, step i
\* and the later steps are never started, ExecuteWithProgress returns the
\* results of the steps before i with the cancellation error, and the
\* state has IsCancelled = true and IsCompleted = false.
C13_Cancellation ==
  /\ [][ /\ (mpc = "loop" /\ ctxCancelled /\ idx <= Len(migrationTypes)) =>
              /\ mpc' = "returned"
              /\ ret' = [results |-> results, nilResults |-> FALSE, err |-> ErrCtx]
              /\ execLog' = execLog
         /\ MigrationReturned => (execLog' = execLog /\ ret' = ret)
       ]_vars
  /\ []((MigrationReturned /\ ret.err = ErrCtx) =>
          /\ OutcomesOf(ret.results, idx - 1)
          /\ msState.IsCancelled
          /\ ~msState.IsCompleted)

C13_Witness ==
  /\ MigrationReturned
  /\ ret.err = ErrCtx
  /\ Len(ret.results) = 1
  /\ Len(migrationTypes) = 3
  /\ msState.IsCancelled

\* C14 as stated: ExecuteWithProgress returns a non-nil error only when
\* cancellation interrupted the step loop; on every other path, a failure
\* while preparing the environment included, the error is nil and the
\* results are returned.
C14_ErrorOnlyOnCancel ==
  MigrationReturned =>
    IF msState.IsCancelled
      THEN ret.err = ErrCtx
      ELSE ret.err = NoError /\ ~ret.nilResults

\* C14 amended: a non-nil error is returned only when cancellation
\* interrupted the step loop or prepareEnvironment failed; in the second
\* case no step is run and the results are nil.  Otherwise (failing steps,
\* failure to generate the config file) the error is nil and the results
\* of all steps are returned.
C14_ErrorOnCancelOrPrepare ==
  MigrationReturned =>
    IF ~envOk
      THEN ret.err = ErrCreateFailed /\ ret.nilResults /\ execLog = <<>>
      ELSE IF msState.IsCancelled
        THEN ret.err = ErrCtx /\ ~ret.nilResults
        ELSE /\ ret.err = NoError
             /\ ~ret.nilResults
             /\ Len(ret.results) = Len(migrationTypes)

C14_Witness ==
  /\ MigrationReturned
  /\ ~envOk
  /\ ~ctxCancelled
  /\ Len(migrationTypes) = 2
  /\ ret.err = ErrCreateFailed
  /\ ret.nilResults

\* C24: for each step the orchestrator calls Execute, appends the result,
\* and only then calls UpdateStep with the running index (and
\* UpdateProgress): the tracker never shows step i as current before
\* step i's result has been appended.
C24_OrderOfEvents ==
  pt.isRunning =>
    /\ pt.currentStep <= Len(results)
    /\ mpc = "execute" => pt.currentStep < idx

\* C29: while ExecuteWithProgress runs on a tracker started with
\* totalSteps = len(steps), the tracker's percentage never decreases, and
\* after step i has been processed it is at least i / len(steps) * 100.
C29_ProgressMonotone ==
  [][ pt.isRunning =>
        /\ pt'.percentage >= pt.percentage
        /\ (mpc = "execute" /\ mpc' # "execute") =>
             pt'.percentage * Len(migrationTypes) >= idx * 100
    ]_vars

\* -------------------------------------------------- parseProgress claims

\* C20: parsing a line "Processing X: Y (c/0)" raises no division error
\* and leaves Percentage at the value it had before the call, for any
\* prior state.
C20_PercentageGuard ==
  (/\ nparsed > 0
   /\ lastLine.proc # NoMatch
   /\ lastLine.proc.total = [ok |-> TRUE, v |-> 0]) =>
    /\ progress.Percentage = prior.Percentage
    /\ progress.Percentage.d # 0
    /\ progress.TotalSteps = 0

\* "Processing table: T1 (1/0)" parsed with the percentage at 50.
C20_Witness ==
  /\ nparsed > 0
  /\ lastLine.proc # NoMatch
  /\ lastLine.proc.total = [ok |-> TRUE, v |-> 0]
  /\ lastLine.proc.done = [ok |-> TRUE, v |-> 1]
  /\ prior.Percentage = [n |-> 50, d |-> 1]
  /\ progress.Percentage = [n |-> 50, d |-> 1]
  /\ progress.CompletedSteps = 1

\* C21: after any sequence of parseProgress calls from the zero value,
\* Percentage is CompletedSteps / TotalSteps * 100 when TotalSteps > 0 and
\* 0 when TotalSteps = 0.
C21_PercentageInvariant ==
  progress.Percentage =
    IF progress.TotalSteps > 0
      THEN Quotient(progress.CompletedSteps * 100, progress.TotalSteps)
      ELSE [n |-> 0, d |-> 1]

\* p and q agree on every field outside fields.
SameExcept(p, q, fields) == \A f \in (DOMAIN p) \ fields : p[f] = q[f]

\* C22: parseProgress applies the first pattern that matches, in the
\* order Processing, Exported, Total rows, LEVEL, and only that one: only
\* its fields change (Processing: CurrentStep, CompletedSteps, TotalSteps,
\* Percentage; Exported: ProcessedRows, Message; Total rows: TotalRows;
\* LEVEL: Message), and a line that matches none changes nothing.
C22_FirstMatchWins ==
  nparsed > 0 =>
    IF lastLine.proc # NoMatch
      THEN /\ progress.CurrentStep = << lastLine.proc.what, lastLine.proc.name >>
           /\ SameExcept(progress, prior,
                         {"CurrentStep", "CompletedSteps", "TotalSteps", "Percentage"})
    ELSE IF lastLine.exported # NoMatch
      THEN /\ progress.Message = << "exported", lastLine.exported.rows.v >>
           /\ SameExcept(progress, prior, {"ProcessedRows", "Message"})
    ELSE IF lastLine.totalRows # NoMatch
      THEN /\ lastLine.totalRows.rows.ok =>
                progress.TotalRows = lastLine.totalRows.rows.v
           /\ SameExcept(progress, prior, {"TotalRows"})
    ELSE IF lastLine.prefix # ""
      THEN /\ progress.Message = << "rest", NoMatch, NoMatch, NoMatch >>
           /\ SameExcept(progress, prior, {"Message"})
    ELSE progress = prior

\* "INFO: Processing table: T1 (1/2) Exported 1 rows Total rows: 1" has
\* been parsed: only the Processing fields have changed.
C22_Witness ==
  /\ nparsed = 1
  /\ lastLine.prefix # ""
  /\ lastLine.proc # NoMatch
  /\ lastLine.exported # NoMatch
  /\ lastLine.totalRows # NoMatch
  /\ progress.CompletedSteps = 1
  /\ progress.ProcessedRows = 0
  /\ progress.TotalRows = 0
  /\ progress.Message = << >>

\* ----------------------------------------------- buildCommandArgs claims

\* The part of the argument list an option gives.
Opt(present, part) == IF present THEN part ELSE << >>

\* C23: when the config file, if given, exists, buildCommandArgs returns
\* "ora2pg", ("-c", configFile)?, "-t", type, ("-o", outputDir)?, "-v"?,
\* "-n"?, ("-l", logFile)? in this order, each optional part present iff
\* its option is non-empty / true; when ConfigFile is given and the file
\* does not exist it returns an error and no arguments.
C23_ArgumentVector ==
  bOut.done =>
    IF bOptions.ConfigFile # "" /\ ~bExists
      THEN bOut.err # NoError /\ bOut.args = << >>
      ELSE /\ bOut.err = NoError
           /\ bOut.args =
                << "ora2pg" >>
                \o Opt(bOptions.ConfigFile # "", << "-c", bOptions.ConfigFile >>)
                \o << "-t", bType >>
                \o Opt(bOptions.OutputDir # "", << "-o", bOptions.OutputDir >>)
                \o Opt(bOptions.Verbose, << "-v" >>)
                \o Opt(bOptions.DryRun, << "-n" >>)
                \o Opt(bOptions.LogFile # "", << "-l", bOptions.LogFile >>)

\* All options given, as in TestBuildCommandArgs.
C23_Witness ==
  /\ bOut.done
  /\ bOut.err = NoError
  /\ bOut.args = << "ora2pg", "-c", "ora2pg.conf", "-t", "TABLE", "-o", "output",
                    "-v", "-n", "-l", "run.log" >>

\* ------------------------------------------------ ProgressTracker claims

Mutators == {"UpdateStep", "UpdateProgress", "SetMessage", "AddStep", "Complete"}

\* Caller c runs the body of one of ops in this step, and returns.
BodyStep(c, ops) == InBody(c, ops) /\ callers'[c].pc = "idle"

\* C15: on a tracker that is not running, UpdateStep, UpdateProgress,
\* SetMessage, AddStep and Complete leave currentStep, currentMessage,
\* percentage and lastUpdateTime unchanged and enqueue no update.
C15_MutatorsNoOp ==
  [][ \A c \in Callers :
        (BodyStep(c, Mutators) /\ ~pt.isRunning) =>
          /\ pt'.currentStep = pt.currentStep
          /\ pt'.currentMessage = pt.currentMessage
          /\ pt'.percentage = pt.percentage
          /\ pt'.lastUpdateTime = pt.lastUpdateTime
          /\ updateChan' = updateChan
    ]_vars

\* C16: once Stop has returned on a running tracker, the display loop
\* renders nothing more, neither in handleProgressUpdate nor in
\* refreshDisplay.
C16_NoRenderAfterStop == ~renderedAfterStop

\* C17: the running flag becomes true only by Start on a tracker that was
\* never stopped and false only by Stop; after Stop it is never true
\* again; Stop on a tracker that is not running changes nothing.
C17_TrackerStateMachine ==
  [][ /\ (~pt.isRunning /\ pt'.isRunning) =>
            (~everStopped /\ \E c \in Callers : BodyStep(c, {"Start"}))
      /\ (pt.isRunning /\ ~pt'.isRunning) => \E c \in Callers : InBody(c, {"Stop"})
      /\ everStopped => ~pt'.isRunning
      /\ \A c \in Callers :
            (BodyStep(c, {"Stop"}) /\ ~pt.isRunning) =>
              UNCHANGED << pt, stopChan, updateChan, updateClosed, loops >>
    ]_vars

\* The fields a call of UpdateStep or UpdateProgress with argument a asks
\* for.
Asked(c) ==
  IF callers[c].op = "UpdateProgress"
    THEN /\ pt'.percentage = callers[c].a
         /\ pt'.currentStep = pt.currentStep
    ELSE /\ pt'.currentStep = callers[c].a
         /\ pt'.currentMessage = "step"
         /\ pt'.percentage = IF pt.totalSteps > 0
                               THEN (callers[c].a * 100) \div pt.totalSteps
                               ELSE pt.percentage

\* C18: on a running tracker UpdateStep and UpdateProgress never block,
\* whatever the fill level of the update queue; when the queue is full the
\* update is dropped but the fields take the new values, and the next tick
\* renders the fields as they are.
C18_NonBlockingUpdates ==
  /\ [](\A c \in Callers :
         (Alive /\ InBody(c, {"UpdateStep", "UpdateProgress"})) =>
           ENABLED (UpdateStep(c) \/ UpdateProgress(c)))
  /\ [](Len(updateChan) <= UpdateChanCap)
  /\ [][ /\ \A c \in Callers :
              (/\ BodyStep(c, {"UpdateStep", "UpdateProgress"})
               /\ pt.isRunning /\ ~updateClosed) =>
                /\ Asked(c)
                /\ Len(updateChan) = UpdateChanCap => updateChan' = updateChan
                /\ Len(updateChan) < UpdateChanCap =>
                     /\ Len(updateChan') = Len(updateChan) + 1
                     /\ updateChan'[Len(updateChan')].Step = pt'.currentStep
                     /\ updateChan'[Len(updateChan')].Percentage = pt'.percentage
         /\ \A l \in 1..Len(loops) :
              (LoopAt(l, "refresh") /\ loops'[l].pc = "select" /\ pt.isRunning) =>
                /\ lastRender'.kind = "tick"
                /\ lastRender'.step = pt.currentStep
                /\ lastRender'.message = pt.currentMessage
                /\ lastRender'.percentage = pt.percentage
       ]_vars

\* An update was dropped on the full queue (no queued update carries the
\* current step) and a tick has rendered the current fields.
C18_Witness ==
  /\ pt.isRunning
  /\ Len(updateChan) = UpdateChanCap
  /\ \A k \in 1..Len(updateChan) : updateChan[k].Step # pt.currentStep
  /\ lastRender.kind = "tick"
  /\ lastRender.step = pt.currentStep
  /\ lastRender.percentage = pt.percentage

\* A caller holds the write lock in a body that writes totalSteps or
\* percentage.
WritesShown(c) ==
  \/ InBody(c, {"Start", "Complete"})
  \/ InBody(c, {"UpdateProgress"}) /\ pt.isRunning
  \/ InBody(c, {"UpdateStep", "AddStep"}) /\ pt.isRunning /\ pt.totalSteps > 0

\* C19: every read and write of the tracker's fields happens with the
\* mutex held: the display loop is never about to read totalSteps and
\* percentage without the lock while a caller is writing them.
C19_MutexProtects ==
  ~ \E l \in 1..Len(loops) : \E c \in Callers :
      LoopAt(l, "handle") /\ WritesShown(c)

\* C25: every display loop spawned by Start exits once Stop has signalled
\* it: when Stop has returned, no call is in progress and no stop signal
\* is left to take, no display loop is still running.
C25_LoopsExit ==
  (/\ everStopped
   /\ ~pt.isRunning
   /\ stopChan = 0
   /\ \A c \in Callers : callers[c].pc = "idle") =>
    \A l \in 1..Len(loops) : loops[l].pc = "exited"

\* C27: no call sends on the update channel after it has been closed, the
\* channel is never closed twice, and Stop never blocks on the stop
\* channel.
C27_ChannelUse ==
  /\ panicked = "none"
  /\ \A c \in Callers : callers[c].pc # "stopSend"

\* C28: the tracker's percentage stays within 0..100, and the progress
\* bar's filled and empty cells within 0..30.
C28_PercentageRange ==
  /\ pt.percentage \in 0..100
  /\ BarFilled(pt.percentage) \in 0..BarWidth
  /\ BarEmpty(pt.percentage) \in 0..BarWidth

\* C30: when goroutines each call AddStep once on a running tracker,
\* currentStep ends as many higher as there were calls.
C30_AddStepAtomic ==
  (\A c \in Callers : callers[c].pc = "idle") => pt.currentStep = ncalls

\* C26: when both readers of one Execute have finished, the ProgressInfo
\* is what parseProgress gives on the lines of both streams taken one
\* after the other in some order that keeps each stream's own order.
C26_LineAtomic ==
  (\A s \in Streams : rdAt[s] = "done") =>
    \E m \in Merges(rdInput["stdout"], rdInput["stderr"]) :
      progress = ParseAll(m, NewProgressInfo)

====
